---- MODULE Spec2Model ----
(***************************************************************************)
(* A model of beanstalkc.py: the Connection's protocol interaction layer   *)
(* (_interact, _read_response, _read_body and the helpers built on them),  *)
(* the public verbs of Connection, and the Job handle.                     *)
(*                                                                         *)
(* A byte is a one-character string and a byte string (Python bytes) is a  *)
(* sequence of bytes.  The transport is the unread part of the byte stream *)
(* the daemon has written (rbuf); a call appends the daemon's answer to    *)
(* what it sends and then reads from the front of it.                      *)
(*                                                                         *)
(* Spec is a single caller making any sequence of Connection and Job calls *)
(* against a daemon that answers every command with one well-formed        *)
(* response.  SpecInteract is _interact called with any declared sets      *)
(* against a peer that answers with any line; SpecReconnect adds reconnect *)
(* to it.  SpecFault is calls against a peer that answers anything and may *)
(* close the stream.  SpecRace is two callers sharing the Connection with  *)
(* nothing to serialize them: each socket operation of a call is a step.   *)
(***************************************************************************)
EXTENDS Integers, Sequences, FiniteSets, TLC

\* ------------------------------------------------------------------ bounds

\* Job bodies are all byte strings over BodyBytes up to this length (and one
\* longer body, StatusLikeBody).
MaxBody == 1
\* Number of jobs the daemon stores before it answers DRAINING.
MaxJobs == 1

\* ------------------------------------------------------------------- bytes

CR == "\r"
LF == "\n"
SP == " "
CRLF == <<CR, LF>>

\* bytes.split() separates on runs of ASCII whitespace.
Whitespace == {SP, "\t", LF, CR}

DigitChars == <<"0", "1", "2", "3", "4", "5", "6", "7", "8", "9">>

IsDigit(c) == \E i \in 1..10 : DigitChars[i] = c

DigitVal(c) == (CHOOSE i \in 1..10 : DigitChars[i] = c) - 1

RECURSIVE FmtInt(_)
\* b'%d' % n for an int n (decimal, a leading '-' when negative).
FmtInt(n) ==
    IF n < 0 THEN <<"-">> \o FmtInt(0 - n)
    ELSE IF n < 10 THEN <<DigitChars[n + 1]>>
    ELSE Append(FmtInt(n \div 10), DigitChars[(n % 10) + 1])

RECURSIVE DigitsVal(_, _)
DigitsVal(s, acc) ==
    IF s = <<>> THEN acc
    ELSE DigitsVal(Tail(s), acc * 10 + DigitVal(Head(s)))

AllDigits(s) == s # <<>> /\ \A i \in 1..Len(s) : IsDigit(s[i])

\* int(tok) for a whitespace-free token: an optional sign and decimal digits;
\* anything else raises ValueError (ok = FALSE).
ParseInt(tok) ==
    IF AllDigits(tok) THEN [ok |-> TRUE, v |-> DigitsVal(tok, 0)]
    ELSE IF tok # <<>> /\ Head(tok) = "-" /\ AllDigits(Tail(tok))
        THEN [ok |-> TRUE, v |-> 0 - DigitsVal(Tail(tok), 0)]
    ELSE IF tok # <<>> /\ Head(tok) = "+" /\ AllDigits(Tail(tok))
        THEN [ok |-> TRUE, v |-> DigitsVal(Tail(tok), 0)]
    ELSE [ok |-> FALSE, v |-> 0]

RECURSIVE SplitFrom(_, _, _)
\* Tokens of s from position i on; cur is the token being collected.
SplitFrom(s, i, cur) ==
    IF i > Len(s) THEN (IF cur = <<>> THEN <<>> ELSE <<cur>>)
    ELSE IF s[i] \in Whitespace
        THEN (IF cur = <<>> THEN SplitFrom(s, i + 1, <<>>)
              ELSE <<cur>> \o SplitFrom(s, i + 1, <<>>))
    ELSE SplitFrom(s, i + 1, Append(cur, s[i]))

\* bytes.split(): the maximal whitespace-free runs of s, in order.
Split(s) == SplitFrom(s, 1, <<>>)

RECURSIVE JoinArgs(_)
JoinArgs(toks) ==
    IF toks = <<>> THEN <<>> ELSE <<SP>> \o Head(toks) \o JoinArgs(Tail(toks))

\* A protocol line: the tokens separated by single spaces, then CRLF.
Line(toks) == Head(toks) \o JoinArgs(Tail(toks)) \o CRLF

Take(s, n) == SubSeq(s, 1, n)
Drop(s, n) == SubSeq(s, n + 1, Len(s))

\* Position of the first LF of s, 0 when there is none.
FirstLF(s) ==
    IF \E i \in 1..Len(s) : s[i] = LF
    THEN CHOOSE i \in 1..Len(s) : s[i] = LF /\ \A j \in 1..(i - 1) : s[j] # LF
    ELSE 0

\* ------------------------------------------------- the protocol's alphabet

\* Response status tokens, as the bytes on the wire.
S ==
    [INSERTED |-> <<"I", "N", "S", "E", "R", "T", "E", "D">>,
     JOB_TOO_BIG |-> <<"J", "O", "B", "_", "T", "O", "O", "_", "B", "I", "G">>,
     BURIED |-> <<"B", "U", "R", "I", "E", "D">>,
     DRAINING |-> <<"D", "R", "A", "I", "N", "I", "N", "G">>,
     RESERVED |-> <<"R", "E", "S", "E", "R", "V", "E", "D">>,
     DEADLINE_SOON |-> <<"D", "E", "A", "D", "L", "I", "N", "E", "_", "S", "O", "O", "N">>,
     TIMED_OUT |-> <<"T", "I", "M", "E", "D", "_", "O", "U", "T">>,
     KICKED |-> <<"K", "I", "C", "K", "E", "D">>,
     NOT_FOUND |-> <<"N", "O", "T", "_", "F", "O", "U", "N", "D">>,
     FOUND |-> <<"F", "O", "U", "N", "D">>,
     OK |-> <<"O", "K">>,
     USING |-> <<"U", "S", "I", "N", "G">>,
     WATCHING |-> <<"W", "A", "T", "C", "H", "I", "N", "G">>,
     NOT_IGNORED |-> <<"N", "O", "T", "_", "I", "G", "N", "O", "R", "E", "D">>,
     PAUSED |-> <<"P", "A", "U", "S", "E", "D">>,
     DELETED |-> <<"D", "E", "L", "E", "T", "E", "D">>,
     RELEASED |-> <<"R", "E", "L", "E", "A", "S", "E", "D">>,
     TOUCHED |-> <<"T", "O", "U", "C", "H", "E", "D">>,
     OUT_OF_MEMORY |-> <<"O", "U", "T", "_", "O", "F", "_", "M", "E", "M", "O", "R", "Y">>,
     BAD_FORMAT |-> <<"B", "A", "D", "_", "F", "O", "R", "M", "A", "T">>,
     UNKNOWN_COMMAND |-> <<"U", "N", "K", "N", "O", "W", "N", "_", "C", "O", "M", "M", "A", "N", "D">>,
     EXPECTED_CRLF |-> <<"E", "X", "P", "E", "C", "T", "E", "D", "_", "C", "R", "L", "F">>]

\* Request verbs, as the bytes on the wire.
V ==
    [put |-> <<"p", "u", "t">>,
     quit |-> <<"q", "u", "i", "t">>,
     reserve |-> <<"r", "e", "s", "e", "r", "v", "e">>,
     reserve_with_timeout |-> <<"r", "e", "s", "e", "r", "v", "e", "-", "w", "i", "t", "h", "-", "t", "i", "m", "e", "o", "u", "t">>,
     kick |-> <<"k", "i", "c", "k">>,
     kick_job |-> <<"k", "i", "c", "k", "-", "j", "o", "b">>,
     peek |-> <<"p", "e", "e", "k">>,
     peek_ready |-> <<"p", "e", "e", "k", "-", "r", "e", "a", "d", "y">>,
     peek_delayed |-> <<"p", "e", "e", "k", "-", "d", "e", "l", "a", "y", "e", "d">>,
     peek_buried |-> <<"p", "e", "e", "k", "-", "b", "u", "r", "i", "e", "d">>,
     list_tubes |-> <<"l", "i", "s", "t", "-", "t", "u", "b", "e", "s">>,
     list_tube_used |-> <<"l", "i", "s", "t", "-", "t", "u", "b", "e", "-", "u", "s", "e", "d">>,
     use |-> <<"u", "s", "e">>,
     list_tubes_watched |-> <<"l", "i", "s", "t", "-", "t", "u", "b", "e", "s", "-", "w", "a", "t", "c", "h", "e", "d">>,
     watch |-> <<"w", "a", "t", "c", "h">>,
     ignore |-> <<"i", "g", "n", "o", "r", "e">>,
     stats |-> <<"s", "t", "a", "t", "s">>,
     stats_tube |-> <<"s", "t", "a", "t", "s", "-", "t", "u", "b", "e">>,
     pause_tube |-> <<"p", "a", "u", "s", "e", "-", "t", "u", "b", "e">>,
     delete |-> <<"d", "e", "l", "e", "t", "e">>,
     release |-> <<"r", "e", "l", "e", "a", "s", "e">>,
     bury |-> <<"b", "u", "r", "y">>,
     touch |-> <<"t", "o", "u", "c", "h">>,
     stats_job |-> <<"s", "t", "a", "t", "s", "-", "j", "o", "b">>]

\* ------------------------------------------------------------- the daemon
\* The queue daemon at the other end of the transport (spec section 6).  It
\* stores the jobs it accepted, srv[id] = [live, body], and answers every
\* command with one well-formed response.  What the client cannot know (which
\* job is ready, whether a reservation is about to expire, whether memory ran
\* out) is a decision d = [alt, id, pri] the environment takes.

Alts == {"ok", "err1", "err2", "oom"}

StatsPris == {0, 3}

Decisions == [alt : Alts, id : 1..MaxJobs, pri : StatsPris, raw : {<<>>}]

\* A decision to answer with the given bytes, whatever the command.
Raw(bytes) == [alt |-> "raw", id |-> 1, pri |-> 0, raw |-> bytes]

Live(srv, id) == id \in 1..Len(srv) /\ srv[id].live

\* A response without a body: the status line only.
PlainReply(toks) == Line(toks)

\* A body-bearing response: the status line ends with the body's length, then
\* the body and a CRLF trailer follow.
BodyReply(toks, body) == Line(Append(toks, FmtInt(Len(body)))) \o body \o CRLF

TubeDoc == <<"-", SP, "d", LF>>

StatsDoc(pri) == <<"p", "r", "i", ":", SP>> \o FmtInt(pri) \o <<LF>>

DefaultTube == <<"d", "e", "f", "a", "u", "l", "t">>

\* The integer argument at position k of a command line, -1 when it is
\* missing or no number.
IntArg(toks, k) ==
    IF k <= Len(toks) /\ ParseInt(toks[k]).ok THEN ParseInt(toks[k]).v ELSE -1

DaemonPut(srv, toks, data, d) ==
    LET n == IntArg(toks, 5)
        wellFormed == /\ Len(toks) = 5
                      /\ \A k \in 2..5 : AllDigits(toks[k])
        id == Len(srv) + 1
    IN  IF ~wellFormed THEN [srv |-> srv, reply |-> PlainReply(<<S.BAD_FORMAT>>)]
        ELSE IF Len(data) # n + 2 \/ Drop(data, n) # CRLF
            THEN [srv |-> srv, reply |-> PlainReply(<<S.EXPECTED_CRLF>>)]
        ELSE IF d.alt = "oom"
            THEN [srv |-> srv, reply |-> PlainReply(<<S.OUT_OF_MEMORY>>)]
        ELSE IF d.alt = "err1"
            THEN [srv |-> srv, reply |-> PlainReply(<<S.JOB_TOO_BIG>>)]
        ELSE IF Len(srv) >= MaxJobs
            THEN [srv |-> srv, reply |-> PlainReply(<<S.DRAINING>>)]
        ELSE [srv |-> Append(srv, [live |-> TRUE, body |-> Take(data, n)]),
              reply |-> PlainReply(<<IF d.alt = "err2" THEN S.BURIED ELSE S.INSERTED,
                                     FmtInt(id)>>)]

\* reserve, reserve-with-timeout and the peek variants: a job and its body,
\* or the verb's failure status.
DaemonFetch(srv, found, id, d, failure) ==
    IF d.alt = "oom" THEN [srv |-> srv, reply |-> PlainReply(<<S.OUT_OF_MEMORY>>)]
    ELSE IF d.alt = "ok" /\ Live(srv, id)
        THEN [srv |-> srv, reply |-> BodyReply(<<found, FmtInt(id)>>, srv[id].body)]
    ELSE [srv |-> srv, reply |-> PlainReply(<<failure>>)]

\* delete, release, bury, touch, kick-job: a status line, NOT_FOUND for a job
\* the daemon does not hold (or does not hold in the state the verb needs).
DaemonJobVerb(srv, verb, id, d) ==
    IF d.alt = "oom" THEN [srv |-> srv, reply |-> PlainReply(<<S.OUT_OF_MEMORY>>)]
    ELSE IF ~Live(srv, id) THEN [srv |-> srv, reply |-> PlainReply(<<S.NOT_FOUND>>)]
    ELSE IF verb = V.delete
        THEN [srv |-> [srv EXCEPT ![id] = [live |-> FALSE, body |-> <<>>]],
              reply |-> PlainReply(<<S.DELETED>>)]
    ELSE IF d.alt = "err1" THEN [srv |-> srv, reply |-> PlainReply(<<S.NOT_FOUND>>)]
    ELSE IF verb = V.release
        THEN [srv |-> srv,
              reply |-> PlainReply(<<IF d.alt = "err2" THEN S.BURIED ELSE S.RELEASED>>)]
    ELSE IF verb = V.bury THEN [srv |-> srv, reply |-> PlainReply(<<S.BURIED>>)]
    ELSE IF verb = V.touch THEN [srv |-> srv, reply |-> PlainReply(<<S.TOUCHED>>)]
    ELSE [srv |-> srv, reply |-> PlainReply(<<S.KICKED>>)]

\* A structured-document response, or the verb's NOT_FOUND.
DaemonDoc(srv, doc, canFail, d) ==
    IF d.alt = "oom" THEN [srv |-> srv, reply |-> PlainReply(<<S.OUT_OF_MEMORY>>)]
    ELSE IF canFail /\ d.alt # "ok"
        THEN [srv |-> srv, reply |-> PlainReply(<<S.NOT_FOUND>>)]
    ELSE [srv |-> srv, reply |-> BodyReply(<<S.OK>>, doc)]

DaemonTubeVerb(srv, verb, toks, d) ==
    IF d.alt = "oom" THEN [srv |-> srv, reply |-> PlainReply(<<S.OUT_OF_MEMORY>>)]
    ELSE IF verb = V.list_tube_used
        THEN [srv |-> srv, reply |-> PlainReply(<<S.USING, DefaultTube>>)]
    ELSE IF verb = V.kick
        THEN [srv |-> srv,
              reply |-> PlainReply(<<S.KICKED, FmtInt(IF d.alt = "ok" THEN 1 ELSE 0)>>)]
    ELSE IF Len(toks) < 2 THEN [srv |-> srv, reply |-> PlainReply(<<S.BAD_FORMAT>>)]
    ELSE IF verb = V.use
        THEN [srv |-> srv, reply |-> PlainReply(<<S.USING, toks[2]>>)]
    ELSE IF verb = V.watch
        THEN [srv |-> srv,
              reply |-> PlainReply(<<S.WATCHING, FmtInt(IF d.alt = "ok" THEN 2 ELSE 1)>>)]
    ELSE IF verb = V.ignore
        THEN [srv |-> srv,
              reply |-> IF d.alt = "ok" THEN PlainReply(<<S.WATCHING, FmtInt(1)>>)
                        ELSE PlainReply(<<S.NOT_IGNORED>>)]
    ELSE [srv |-> srv,
          reply |-> PlainReply(<<IF d.alt = "ok" THEN S.PAUSED ELSE S.NOT_FOUND>>)]

\* The daemon's answer to the bytes of one sendall, and its store afterwards.
DaemonStep(srv, cmd, d) ==
    LET eol == FirstLF(cmd)
        toks == Split(Take(cmd, eol))
        data == Drop(cmd, eol)
        verb == IF toks = <<>> THEN <<>> ELSE toks[1]
    IN  IF d.alt = "raw" THEN [srv |-> srv, reply |-> d.raw]
        ELSE IF eol = 0 \/ toks = <<>>
            THEN [srv |-> srv, reply |-> PlainReply(<<S.UNKNOWN_COMMAND>>)]
        ELSE IF verb = V.put THEN DaemonPut(srv, toks, data, d)
        ELSE IF verb \in {V.reserve, V.reserve_with_timeout}
            THEN DaemonFetch(srv, S.RESERVED, d.id, d,
                             IF d.alt = "err1" THEN S.DEADLINE_SOON ELSE S.TIMED_OUT)
        ELSE IF verb = V.peek
            THEN DaemonFetch(srv, S.FOUND, IntArg(toks, 2), d, S.NOT_FOUND)
        ELSE IF verb \in {V.peek_ready, V.peek_delayed, V.peek_buried}
            THEN DaemonFetch(srv, S.FOUND, d.id, d, S.NOT_FOUND)
        ELSE IF verb \in {V.delete, V.release, V.bury, V.touch, V.kick_job}
            THEN DaemonJobVerb(srv, verb, IntArg(toks, 2), d)
        ELSE IF verb \in {V.list_tubes, V.list_tubes_watched}
            THEN DaemonDoc(srv, TubeDoc, FALSE, d)
        ELSE IF verb = V.stats THEN DaemonDoc(srv, StatsDoc(0), FALSE, d)
        ELSE IF verb = V.stats_tube THEN DaemonDoc(srv, StatsDoc(0), TRUE, d)
        ELSE IF verb = V.stats_job
            THEN DaemonDoc(srv, StatsDoc(d.pri),
                           TRUE, [d EXCEPT !.alt = IF d.alt = "ok" /\ ~Live(srv, IntArg(toks, 2))
                                                   THEN "err1" ELSE d.alt])
        ELSE IF verb \in {V.list_tube_used, V.kick, V.use, V.watch, V.ignore, V.pause_tube}
            THEN DaemonTubeVerb(srv, verb, toks, d)
        ELSE [srv |-> srv, reply |-> PlainReply(<<S.UNKNOWN_COMMAND>>)]

\* --------------------------------------------------------------- constants

DEFAULT_TTR == 120

\* A priority is a Python int; 2 ** 31 does not fit a 32-bit integer, so a
\* priority is carried as two decimal limbs, hi * 10^5 + lo.
Pri(n) == [hi |-> 0, lo |-> n]

DEFAULT_PRIORITY == [hi |-> 21474, lo |-> 83648]

\* b'%d' % priority
FmtPri(p) ==
    IF p.hi = 0 THEN FmtInt(p.lo)
    ELSE FmtInt(p.hi) \o SubSeq(FmtInt(100000 + p.lo), 2, 6)

\* Python truth of an int: 0 is false.
Truthy(p) == p.hi # 0 \/ p.lo # 0

\* ----------------------------------------------------------- Python values
\* A value is a record [t, v]; t tells what v is.

None == [t |-> "none", v |-> 0]
PyInt(n) == [t |-> "int", v |-> n]
PyBytes(s) == [t |-> "bytes", v |-> s]
PyStr(s) == [t |-> "str", v |-> s]
PyList(toks) == [t |-> "list", v |-> toks]

\* How a call ends: kind is "return", the name of the exception raised, or
\* "blocked" for a read that waits for bytes that never come.
Ret(w, v) == [w |-> w, kind |-> "return", val |-> v]
Raise(w, k, v) == [w |-> w, kind |-> k, val |-> v]

\* The args of CommandFailed and UnexpectedResponse: (verb, status, results).
ExcArgs(verb, status, results) ==
    [t |-> "args", v |-> [verb |-> verb, status |-> status, results |-> results]]

\* A type test that lets text through.
isinstance_bytes_Text(x) == x.t \in {"bytes", "str"}

isinstance_bytes(x) == x.t = "bytes"

\* ---------------------------------------------------------------- transport
\* w is the Connection's transport and what is behind it:
\*   rbuf    the bytes the daemon wrote that _socket_file has not yet handed out
\*   eof     the daemon closed the stream
\*   connected  the socket is connected (sendall on one that is not raises
\*           socket.error)
\*   srv     the daemon's store
\*   oracle  the daemon's coming decisions, one per command it receives
\*   out     the byte strings handed to sendall, in order
\*   replies the daemon's answers to them, in order

\* socket.sendall(data): the daemon receives the bytes and answers.
Deliver(w, data, r) ==
    [w EXCEPT !.out = Append(@, data),
              !.srv = r.srv,
              !.rbuf = @ \o r.reply,
              !.oracle = Tail(@),
              !.replies = Append(@, r.reply)]

sendall(w, data) ==
    IF w.oracle = <<>> THEN [w EXCEPT !.out = Append(@, data)]
    ELSE Deliver(w, data, DaemonStep(w.srv, data, Head(w.oracle)))

\* _socket_file.readline(): through the first LF; what is left at end of stream.
ReadTo(w, eol) ==
    IF eol > 0 THEN Ret([w EXCEPT !.rbuf = Drop(@, eol)], Take(w.rbuf, eol))
    ELSE IF w.eof THEN Ret([w EXCEPT !.rbuf = <<>>], w.rbuf)
    ELSE Raise(w, "blocked", <<>>)

readline(w) == ReadTo(w, FirstLF(w.rbuf))

\* A read that hands out nothing and leaves the stream where it was.
read_Nothing(w, size) == Ret(w, <<>>)

\* _socket_file.read(size): exactly size bytes; fewer only at end of stream; a
\* negative size reads to the end of the stream.
read(w, size) ==
    IF size >= 0 /\ Len(w.rbuf) >= size
        THEN Ret([w EXCEPT !.rbuf = Drop(@, size)], Take(w.rbuf, size))
    ELSE IF w.eof THEN Ret([w EXCEPT !.rbuf = <<>>], w.rbuf)
    ELSE Raise(w, "blocked", <<>>)

\* ------------------------------------------- the protocol interaction engine

\* Connection._read_response: one line, split into (status, results).
\* response[0] of a line without a token raises IndexError.
SplitResponse(w, response) ==
    IF response = <<>> THEN Raise(w, "IndexError", None)
    ELSE Ret(w, [status |-> response[1], results |-> Tail(response)])

ParseResponse(line) ==
    IF line.kind # "return" THEN line
    ELSE IF line.val = <<>> THEN Raise(line.w, "SocketError", None)
    ELSE SplitResponse(line.w, Split(line.val))

_read_response(w) == ParseResponse(readline(w))

\* Connection._read_body: size bytes of body, then the 2 trailer bytes.
CheckBody(size, body, trailer) ==
    IF trailer.kind # "return" THEN trailer
    ELSE IF size > 0 /\ body.val = <<>> THEN Raise(trailer.w, "SocketError", None)
    ELSE Ret(trailer.w, body.val)

\* ReadTrailer without the read of the trailer.
ReadTrailer_NoTrailer(size, body) ==
    IF body.kind # "return" THEN body
    ELSE CheckBody(size, body, read(body.w, 0))

ReadTrailer(size, body) ==
    IF body.kind # "return" THEN body
    ELSE CheckBody(size, body, read(body.w, 2))

\* _read_body taking the body to end with the line.
_read_body_Line(w, size) == ReadTrailer(size, readline(w))

_read_body(w, size) == ReadTrailer(size, read(w, size))

\* command.split()[0]
Verb(command) == Split(command)[1]

\* Dispatch with the failure set consulted before the success set.
Dispatch_ErrFirst(r, command, expected_ok, expected_err) ==
    IF r.kind # "return" THEN r
    ELSE IF Split(command) = <<>> THEN Raise(r.w, "IndexError", None)
    ELSE IF r.val.status \in expected_err
        THEN Raise(r.w, "CommandFailed",
                   ExcArgs(Verb(command), r.val.status, r.val.results))
    ELSE IF r.val.status \in expected_ok THEN Ret(r.w, PyList(r.val.results))
    ELSE Raise(r.w, "UnexpectedResponse",
               ExcArgs(Verb(command), r.val.status, r.val.results))

\* Connection._interact: send, read one status line, classify the status.
Dispatch(r, command, expected_ok, expected_err) ==
    IF r.kind # "return" THEN r
    ELSE IF r.val.status \in expected_ok THEN Ret(r.w, PyList(r.val.results))
    ELSE IF Split(command) = <<>> THEN Raise(r.w, "IndexError", None)
    ELSE IF r.val.status \in expected_err
        THEN Raise(r.w, "CommandFailed",
                   ExcArgs(Verb(command), r.val.status, r.val.results))
    ELSE Raise(r.w, "UnexpectedResponse",
               ExcArgs(Verb(command), r.val.status, r.val.results))

_interact(w, command, expected_ok, expected_err) ==
    IF ~w.connected
    THEN Raise([w EXCEPT !.out = Append(@, command)], "SocketError", None)
    ELSE Dispatch(_read_response(sendall(w, command)), command, expected_ok,
                  expected_err)

\* Connection.close: quit is sent and the socket closed, each in a try block
\* that swallows socket.error, so close has no failing outcome.  The daemon
\* answers quit with nothing.
close(w) ==
    [w EXCEPT !.out = Append(@, Line(<<V.quit>>)), !.connected = FALSE]

\* A connect that goes on reading from the buffered reader it had.
connect_KeepFile(w, accepted) ==
    IF ~accepted THEN Raise(w, "SocketError", None)
    ELSE Ret([w EXCEPT !.connected = TRUE], None)

\* Connection.connect: a new socket and, once the daemon has accepted it, a
\* new buffered reader on it; a refused connection raises SocketError and
\* leaves the socket unconnected.
connect(w, accepted) ==
    IF ~accepted THEN Raise(w, "SocketError", None)
    ELSE Ret([w EXCEPT !.connected = TRUE, !.rbuf = <<>>, !.eof = FALSE], None)

reconnect(w, accepted) == connect(close(w), accepted)

\* Connection._interact_value: the first result token.
FirstResult(r) ==
    IF r.kind # "return" THEN r
    ELSE IF r.val.v = <<>> THEN Raise(r.w, "IndexError", None)
    ELSE Ret(r.w, PyBytes(r.val.v[1]))

_interact_value(w, command, expected_ok, expected_err) ==
    FirstResult(_interact(w, command, expected_ok, expected_err))

\* Job.__init__
NewJob(jid, body, reserved) ==
    [t |-> "job", v |-> [jid |-> jid, body |-> body, reserved |-> reserved]]

\* Connection._interact_job: (jid, size) from the status line, then the body.
MakeJob(jid, body, reserved) ==
    IF body.kind # "return" THEN body
    ELSE IF ~ParseInt(jid).ok THEN Raise(body.w, "ValueError", None)
    ELSE Ret(body.w, NewJob(ParseInt(jid).v, body.val, reserved))

ReadJob(r, reserved) ==
    IF r.kind # "return" THEN r
    ELSE IF Len(r.val.v) # 2 THEN Raise(r.w, "ValueError", None)
    ELSE IF ~ParseInt(r.val.v[2]).ok THEN Raise(r.w, "ValueError", None)
    ELSE MakeJob(r.val.v[1], _read_body(r.w, ParseInt(r.val.v[2]).v), reserved)

_interact_job(w, command, expected_ok, expected_err, reserved) ==
    ReadJob(_interact(w, command, expected_ok, expected_err), reserved)

\* yaml.load of a document: the model reads the one mapping the client looks
\* into, "pri: <n>"; any other document is an opaque decoded value.
YamlDoc(body, toks) ==
    IF Len(toks) = 2 /\ toks[1] = <<"p", "r", "i", ":">> /\ AllDigits(toks[2])
    THEN [t |-> "dict", v |-> [pri |-> Pri(ParseInt(toks[2]).v)]]
    ELSE [t |-> "doc", v |-> body]

YamlLoad(body) == YamlDoc(body, Split(body))

\* self._parse_yaml: the decoder, or the identity when none is configured.
_parse_yaml(parse_yaml, body) ==
    IF parse_yaml THEN YamlLoad(body) ELSE PyBytes(body)

\* Connection._interact_yaml: size from the status line, the body, decoded.
Decode(parse_yaml, body) ==
    IF body.kind # "return" THEN body
    ELSE Ret(body.w, _parse_yaml(parse_yaml, body.val))

ReadYaml(r, parse_yaml) ==
    IF r.kind # "return" THEN r
    ELSE IF Len(r.val.v) # 1 THEN Raise(r.w, "ValueError", None)
    ELSE IF ~ParseInt(r.val.v[1]).ok THEN Raise(r.w, "ValueError", None)
    ELSE Decode(parse_yaml, _read_body(r.w, ParseInt(r.val.v[1]).v))

_interact_yaml(w, parse_yaml, command, expected_ok, expected_err) ==
    ReadYaml(_interact(w, command, expected_ok, expected_err), parse_yaml)

\* Connection._interact_peek: FOUND gives a Job that is not reserved;
\* CommandFailed is caught and becomes None.
\* _interact_peek without its except clause.
\* An except clause that catches every exception.
NoneIfFailed_All(r) == IF r.kind # "return" THEN Ret(r.w, None) ELSE r

NoneIfFailed_Propagate(r) == r

NoneIfFailed(r) == IF r.kind = "CommandFailed" THEN Ret(r.w, None) ELSE r

\* A peek that hands out its Job as reserved.
_interact_peek_Reserved(w, command) ==
    NoneIfFailed(_interact_job(w, command, {S.FOUND}, {S.NOT_FOUND}, TRUE))

_interact_peek(w, command) ==
    NoneIfFailed(_interact_job(w, command, {S.FOUND}, {S.NOT_FOUND}, FALSE))

\* ------------------------------------------------ Connection: public verbs

\* int(x) of a returned token.
int(r) ==
    IF r.kind # "return" THEN r
    ELSE IF ParseInt(r.val.v).ok THEN Ret(r.w, PyInt(ParseInt(r.val.v).v))
    ELSE Raise(r.w, "ValueError", None)

\* A method without a return statement returns None.
NoResult(r) == IF r.kind # "return" THEN r ELSE Ret(r.w, None)

\* b'put %d %d %d %d\r\n%b\r\n' % (priority, delay, ttr, len(body), body)
PutCommand(body, priority, delay, ttr) ==
    Line(<<V.put, FmtPri(priority), FmtInt(delay), FmtInt(ttr), FmtInt(Len(body))>>)
        \o body \o CRLF

put(w, body, priority, delay, ttr) ==
    IF ~isinstance_bytes(body) THEN Raise(w, "ValueError", None)
    ELSE int(_interact_value(w, PutCommand(body.v, priority, delay, ttr),
                             {S.INSERTED}, {S.JOB_TOO_BIG, S.BURIED, S.DRAINING}))

ReserveCommand(timeout) ==
    IF timeout.t = "int" THEN Line(<<V.reserve_with_timeout, FmtInt(timeout.v)>>)
    ELSE Line(<<V.reserve>>)

\* The except clause of reserve returning None for every CommandFailed.
ReserveFailed_AllNone(r) ==
    IF r.kind # "CommandFailed" THEN r ELSE Ret(r.w, None)

\* The except clause of reserve handling TIMED_OUT only.
ReserveFailed_Reraise(r) ==
    IF r.kind = "CommandFailed" /\ r.val.v.status = S.TIMED_OUT
    THEN Ret(r.w, None) ELSE r

\* The except clause of reserve: TIMED_OUT gives None, DEADLINE_SOON raises
\* DeadlineSoon(results); a handler that falls off its end returns None.
ReserveFailed(r) ==
    IF r.kind # "CommandFailed" THEN r
    ELSE IF r.val.v.status = S.TIMED_OUT THEN Ret(r.w, None)
    ELSE IF r.val.v.status = S.DEADLINE_SOON
        THEN Raise(r.w, "DeadlineSoon", PyList(r.val.v.results))
    ELSE Ret(r.w, None)

reserve(w, timeout) ==
    ReserveFailed(_interact_job(w, ReserveCommand(timeout),
                                {S.RESERVED}, {S.DEADLINE_SOON, S.TIMED_OUT}, TRUE))

kick(w, bound) ==
    int(_interact_value(w, Line(<<V.kick, FmtInt(bound)>>), {S.KICKED}, {}))

kick_job(w, jid) ==
    NoResult(_interact(w, Line(<<V.kick_job, FmtInt(jid)>>), {S.KICKED}, {S.NOT_FOUND}))

peek(w, jid) == _interact_peek(w, Line(<<V.peek, FmtInt(jid)>>))

peek_ready(w) == _interact_peek(w, Line(<<V.peek_ready>>))

peek_delayed(w) == _interact_peek(w, Line(<<V.peek_delayed>>))

peek_buried(w) == _interact_peek(w, Line(<<V.peek_buried>>))

tubes(w, parse_yaml) == _interact_yaml(w, parse_yaml, Line(<<V.list_tubes>>), {S.OK}, {})

using(w) == _interact_value(w, Line(<<V.list_tube_used>>), {S.USING}, {})

use(w, name) ==
    IF ~isinstance_bytes(name) THEN Raise(w, "ValueError", None)
    ELSE _interact_value(w, Line(<<V.use, name.v>>), {S.USING}, {})

watching(w, parse_yaml) ==
    _interact_yaml(w, parse_yaml, Line(<<V.list_tubes_watched>>), {S.OK}, {})

watch(w, name) ==
    IF ~isinstance_bytes(name) THEN Raise(w, "ValueError", None)
    ELSE int(_interact_value(w, Line(<<V.watch, name.v>>), {S.WATCHING}, {}))

\* ignore without its except clause.
IgnoreFailed_Propagate(r) == r

\* The except clause of ignore: CommandFailed gives 1.
IgnoreFailed(r) == IF r.kind = "CommandFailed" THEN Ret(r.w, PyInt(1)) ELSE r

ignore(w, name) ==
    IF ~isinstance_bytes(name) THEN Raise(w, "ValueError", None)
    ELSE IgnoreFailed(int(_interact_value(w, Line(<<V.ignore, name.v>>),
                                          {S.WATCHING}, {S.NOT_IGNORED})))

stats(w, parse_yaml) == _interact_yaml(w, parse_yaml, Line(<<V.stats>>), {S.OK}, {})

stats_tube(w, parse_yaml, name) ==
    IF ~isinstance_bytes(name) THEN Raise(w, "ValueError", None)
    ELSE _interact_yaml(w, parse_yaml, Line(<<V.stats_tube, name.v>>),
                        {S.OK}, {S.NOT_FOUND})

pause_tube(w, name, delay) ==
    IF ~isinstance_bytes(name) THEN Raise(w, "ValueError", None)
    ELSE NoResult(_interact(w, Line(<<V.pause_tube, name.v, FmtInt(delay)>>),
                            {S.PAUSED}, {S.NOT_FOUND}))

\* -- job interactors --

delete(w, jid) ==
    NoResult(_interact(w, Line(<<V.delete, FmtInt(jid)>>), {S.DELETED}, {S.NOT_FOUND}))

release(w, jid, priority, delay) ==
    NoResult(_interact(w, Line(<<V.release, FmtInt(jid), FmtPri(priority), FmtInt(delay)>>),
                       {S.RELEASED, S.BURIED}, {S.NOT_FOUND}))

bury(w, jid, priority) ==
    NoResult(_interact(w, Line(<<V.bury, FmtInt(jid), FmtPri(priority)>>),
                       {S.BURIED}, {S.NOT_FOUND}))

touch(w, jid) ==
    NoResult(_interact(w, Line(<<V.touch, FmtInt(jid)>>), {S.TOUCHED}, {S.NOT_FOUND}))

stats_job(w, parse_yaml, jid) ==
    _interact_yaml(w, parse_yaml, Line(<<V.stats_job, FmtInt(jid)>>),
                   {S.OK}, {S.NOT_FOUND})

\* --------------------------------------------------------------------- Job
\* A Job is [jid, body, reserved]; its conn is the one Connection of the
\* model.  A Job method ends like a Connection call and also leaves the Job.

JobEnd(r, j) == [w |-> r.w, kind |-> r.kind, val |-> r.val, job |-> j]

\* Job.stats
Job_stats(w, parse_yaml, j) == stats_job(w, parse_yaml, j.jid)

\* Job._priority: the 'pri' of the job's stats when they decode to a dict.
PriOf(r) ==
    IF r.kind # "return" THEN r
    ELSE IF r.val.t = "dict" THEN Ret(r.w, r.val.v.pri)
    ELSE Ret(r.w, DEFAULT_PRIORITY)

Job_priority(w, parse_yaml, j) == PriOf(Job_stats(w, parse_yaml, j))

\* priority or self._priority(): the right operand is evaluated only when
\* the left one is None or 0.
PriorityOr(w, parse_yaml, j, priority) ==
    IF priority.t = "int" /\ Truthy(priority.v) THEN Ret(w, priority.v)
    ELSE Job_priority(w, parse_yaml, j)

\* self.reserved = False placed in a finally clause.
ClearReserved_Always(r, j) == JobEnd(r, [j EXCEPT !.reserved = FALSE])

\* The delegated call without the assignment to self.reserved.
ClearReserved_Keep(r, j) == JobEnd(r, j)

\* self.reserved = False, reached only when the delegated call returned.
ClearReserved(r, j) ==
    IF r.kind # "return" THEN JobEnd(r, j)
    ELSE JobEnd(r, [j EXCEPT !.reserved = FALSE])

Job_delete(w, j) == ClearReserved(delete(w, j.jid), j)

\* A release that goes ahead with DEFAULT_PRIORITY when the lookup failed.
ReleaseWith_Default(p, j, delay) ==
    IF p.kind # "return"
    THEN ClearReserved(release(p.w, j.jid, DEFAULT_PRIORITY, delay), j)
    ELSE ClearReserved(release(p.w, j.jid, p.val, delay), j)

ReleaseWith(p, j, delay) ==
    IF p.kind # "return" THEN JobEnd(p, j)
    ELSE ClearReserved(release(p.w, j.jid, p.val, delay), j)

Job_release(w, parse_yaml, j, priority, delay) ==
    IF ~j.reserved THEN JobEnd(Ret(w, None), j)
    ELSE ReleaseWith(PriorityOr(w, parse_yaml, j, priority), j, delay)

BuryWith(p, j) ==
    IF p.kind # "return" THEN JobEnd(p, j)
    ELSE ClearReserved(bury(p.w, j.jid, p.val), j)

Job_bury(w, parse_yaml, j, priority) ==
    IF ~j.reserved THEN JobEnd(Ret(w, None), j)
    ELSE BuryWith(PriorityOr(w, parse_yaml, j, priority), j)

Job_kick(w, j) == JobEnd(kick_job(w, j.jid), j)

\* Job.touch without the test of self.reserved.
Job_touch_Always(w, j) == JobEnd(touch(w, j.jid), j)

Job_touch(w, j) ==
    IF ~j.reserved THEN JobEnd(Ret(w, None), j)
    ELSE JobEnd(touch(w, j.jid), j)

\* ------------------------------------------------------------ state machine

VARIABLES
    rbuf,        \* transport: bytes written by the daemon and not yet read
    eof,         \* transport: the daemon closed the stream
    srv,         \* the daemon's store
    parse_yaml,  \* Connection._parse_yaml is a decoder (TRUE) or the identity
    job,         \* the Job the caller holds (the last one returned), or None
    call,        \* the call that just ended: [op, args, job, deleted], job and
                 \* deleted being job and jobDeleted as the call found them;
                 \* op "none" between calls
    out,         \* the byte strings the last call handed to sendall
    replies,     \* the daemon's answers during the last call
    before,      \* rbuf when the last call started
    ret,         \* how the last call ended: [kind, val]
    puts,        \* history: [jid, body] as handed to put, of the jobs the daemon holds
    jobDeleted,  \* history: Job.delete has completed on the Job held
    afterSoon,   \* history: the call before this one raised DeadlineSoon
    connected,   \* Connection._socket is connected to the daemon
    sinceConnect,\* history: calls made on this transport since connect: 0, 1
                 \* or 2 for more
    callers      \* two callers sharing the Connection, each with the position
                 \* of its call: [at, cmd, results, body, own, got, raced, kind]

vars == <<rbuf, eof, srv, parse_yaml, job, call, out, replies, before, ret, puts,
          jobDeleted, afterSoon, connected, sinceConnect, callers>>

\* ------------------------------------------------------------------ inputs

BodyBytes == {CR, LF}

Bodies == UNION {[1..n -> BodyBytes] : n \in 0..MaxBody}

\* A body that starts like a response of the protocol and goes on after the
\* line end.
StatusLikeBody == Line(<<S.TIMED_OUT>>) \o <<"a">>

\* What a caller may hand over as a body or a tube name: bytes, or text.
PutBodies ==
    {PyBytes(b) : b \in Bodies \cup {StatusLikeBody}} \cup {PyStr(<<"a">>)}

PutPriorities == {Pri(1), DEFAULT_PRIORITY}

TubeName == <<"t">>

Names == {PyBytes(TubeName), PyStr(TubeName)}

Jids == 1..(MaxJobs + 1)

Timeouts == {None, PyInt(0)}

\* The priority handed to Job.release and Job.bury: omitted, 0, or 5.
JobPriorities == <<None, PyInt(Pri(0)), PyInt(Pri(5))>>

\* Decisions for verbs that look at no job, at a job, at a job's stats.
DAlt == {d \in Decisions : d.id = 1 /\ d.pri = 0}
DFetch == {d \in Decisions : d.pri = 0}
DStats == {d \in Decisions : d.id = 1}

\* The transport as a call finds it, with the daemon's coming decisions.
World(ds) ==
    [rbuf |-> rbuf, eof |-> eof, connected |-> connected, srv |-> srv, oracle |-> ds,
     out |-> <<>>, replies |-> <<>>]

\* The caller is between two calls.
Idle == call.op = "none"

\* The state after a call that ended as r.
Finish(op, args, r, j, ps, del) ==
    /\ rbuf' = r.w.rbuf
    /\ eof' = r.w.eof
    /\ srv' = r.w.srv
    /\ out' = r.w.out
    /\ replies' = r.w.replies
    /\ before' = rbuf
    /\ ret' = [kind |-> r.kind, val |-> r.val]
    /\ call' = [op |-> op, args |-> args, job |-> job, deleted |-> jobDeleted]
    /\ job' = j
    /\ puts' = {p \in ps : Live(r.w.srv, p.jid)}
    /\ jobDeleted' = del
    /\ connected' = r.w.connected
    /\ sinceConnect' = IF op = "reconnect" THEN 0
                       ELSE IF sinceConnect = 0 THEN 1 ELSE 2
    /\ UNCHANGED <<parse_yaml, afterSoon, callers>>

\* A Connection call that returns no Job.
ConnCall(op, args, res) ==
    \E r \in {res} : Finish(op, args, r, job, puts, jobDeleted)

\* A Connection call that may return a Job, which the caller then holds.
FetchCall(op, args, res) ==
    \E r \in {res} :
        IF r.kind = "return" /\ r.val.t = "job"
        THEN Finish(op, args, r, r.val, puts, FALSE)
        ELSE Finish(op, args, r, job, puts, jobDeleted)

\* A call on the Job held.
JobCall(op, args, res, del) ==
    \E r \in {res} : Finish(op, args, r, [job EXCEPT !.v = r.job], puts, del)

Init ==
    /\ rbuf = <<>>
    /\ eof = FALSE
    /\ srv = <<>>
    /\ parse_yaml \in BOOLEAN
    /\ job = None
    /\ call = [op |-> "none", args |-> <<>>, job |-> None, deleted |-> FALSE]
    /\ out = <<>>
    /\ replies = <<>>
    /\ before = <<>>
    /\ ret = [kind |-> "return", val |-> None]
    /\ puts = {}
    /\ jobDeleted = FALSE
    /\ afterSoon = FALSE
    /\ connected = TRUE
    /\ sinceConnect = 0
    /\ callers = [c \in {"a", "b"} |->
                      [at |-> "idle", cmd |-> 0, results |-> <<>>, body |-> <<>>,
                       own |-> 0, got |-> <<>>, raced |-> FALSE, kind |-> "none"]]

\* What a put that ended as r tells the caller the daemon stored: the id it
\* returned, or the id that came with BURIED.
Accepted(r, body) ==
    IF r.kind = "return" THEN {[jid |-> r.val.v, body |-> body.v]}
    ELSE IF r.kind = "CommandFailed" /\ r.val.v.status = S.BURIED
                                    /\ Len(r.val.v.results) = 1
                                    /\ ParseInt(r.val.v.results[1]).ok
        THEN {[jid |-> ParseInt(r.val.v.results[1]).v, body |-> body.v]}
    ELSE {}

Put ==
    /\ Idle
    /\ \E body \in PutBodies, priority \in PutPriorities, d \in DAlt :
        \E r \in {put(World(<<d>>), body, priority, 0, DEFAULT_TTR)} :
            Finish("put", <<body, PyInt(priority)>>, r, job,
                   puts \cup Accepted(r, body), jobDeleted)

Reserve ==
    /\ Idle
    /\ \E timeout \in Timeouts, d \in DFetch :
        FetchCall("reserve", <<timeout>>, reserve(World(<<d>>), timeout))

Kick ==
    /\ Idle
    /\ \E d \in DAlt : ConnCall("kick", <<PyInt(1)>>, kick(World(<<d>>), 1))

KickJob ==
    /\ Idle
    /\ \E jid \in Jids, d \in DAlt :
        ConnCall("kick_job", <<PyInt(jid)>>, kick_job(World(<<d>>), jid))

Peek ==
    /\ Idle
    /\ \E jid \in Jids, d \in DAlt :
        FetchCall("peek", <<PyInt(jid)>>, peek(World(<<d>>), jid))

PeekReady ==
    /\ Idle
    /\ \E d \in DFetch : FetchCall("peek_ready", <<>>, peek_ready(World(<<d>>)))

PeekDelayed ==
    /\ Idle
    /\ \E d \in DFetch : FetchCall("peek_delayed", <<>>, peek_delayed(World(<<d>>)))

PeekBuried ==
    /\ Idle
    /\ \E d \in DFetch : FetchCall("peek_buried", <<>>, peek_buried(World(<<d>>)))

Tubes ==
    /\ Idle
    /\ \E d \in DAlt : ConnCall("tubes", <<>>, tubes(World(<<d>>), parse_yaml))

Using ==
    /\ Idle
    /\ \E d \in DAlt : ConnCall("using", <<>>, using(World(<<d>>)))

Use ==
    /\ Idle
    /\ \E name \in Names, d \in DAlt :
        ConnCall("use", <<name>>, use(World(<<d>>), name))

Watching ==
    /\ Idle
    /\ \E d \in DAlt : ConnCall("watching", <<>>, watching(World(<<d>>), parse_yaml))

Watch ==
    /\ Idle
    /\ \E name \in Names, d \in DAlt :
        ConnCall("watch", <<name>>, watch(World(<<d>>), name))

Ignore ==
    /\ Idle
    /\ \E name \in Names, d \in DAlt :
        ConnCall("ignore", <<name>>, ignore(World(<<d>>), name))

Stats ==
    /\ Idle
    /\ \E d \in DAlt : ConnCall("stats", <<>>, stats(World(<<d>>), parse_yaml))

StatsTube ==
    /\ Idle
    /\ \E name \in Names, d \in DAlt :
        ConnCall("stats_tube", <<name>>, stats_tube(World(<<d>>), parse_yaml, name))

PauseTube ==
    /\ Idle
    /\ \E name \in Names, d \in DAlt :
        ConnCall("pause_tube", <<name>>, pause_tube(World(<<d>>), name, 0))

Delete ==
    /\ Idle
    /\ \E jid \in Jids, d \in DAlt :
        ConnCall("delete", <<PyInt(jid)>>, delete(World(<<d>>), jid))

Release ==
    /\ Idle
    /\ \E jid \in Jids, d \in DAlt :
        ConnCall("release", <<PyInt(jid)>>,
                 release(World(<<d>>), jid, DEFAULT_PRIORITY, 0))

Bury ==
    /\ Idle
    /\ \E jid \in Jids, d \in DAlt :
        ConnCall("bury", <<PyInt(jid)>>, bury(World(<<d>>), jid, DEFAULT_PRIORITY))

Touch ==
    /\ Idle
    /\ \E jid \in Jids, d \in DAlt :
        ConnCall("touch", <<PyInt(jid)>>, touch(World(<<d>>), jid))

StatsJob ==
    /\ Idle
    /\ \E jid \in Jids, d \in DStats :
        ConnCall("stats_job", <<PyInt(jid)>>, stats_job(World(<<d>>), parse_yaml, jid))

JobDelete ==
    /\ Idle
    /\ job.t = "job"
    /\ \E d \in DAlt :
        \E r \in {Job_delete(World(<<d>>), job.v)} :
            JobCall("Job.delete", <<>>, r, jobDeleted \/ r.kind = "return")

JobRelease ==
    /\ Idle
    /\ job.t = "job"
    /\ \E i \in DOMAIN JobPriorities, d1 \in DStats, d2 \in DAlt :
        JobCall("Job.release", <<JobPriorities[i]>>,
                Job_release(World(<<d1, d2>>), parse_yaml, job.v, JobPriorities[i], 0),
                jobDeleted)

JobBury ==
    /\ Idle
    /\ job.t = "job"
    /\ \E i \in DOMAIN JobPriorities, d1 \in DStats, d2 \in DAlt :
        JobCall("Job.bury", <<JobPriorities[i]>>,
                Job_bury(World(<<d1, d2>>), parse_yaml, job.v, JobPriorities[i]),
                jobDeleted)

JobKick ==
    /\ Idle
    /\ job.t = "job"
    /\ \E d \in DAlt : JobCall("Job.kick", <<>>, Job_kick(World(<<d>>), job.v), jobDeleted)

JobTouch ==
    /\ Idle
    /\ job.t = "job"
    /\ \E d \in DAlt : JobCall("Job.touch", <<>>, Job_touch(World(<<d>>), job.v), jobDeleted)

JobStats ==
    /\ Idle
    /\ job.t = "job"
    /\ \E d \in DStats :
        JobCall("Job.stats", <<>>,
                JobEnd(Job_stats(World(<<d>>), parse_yaml, job.v), job.v), jobDeleted)

\* The caller takes the outcome of the call and goes on.  A call that blocked
\* never returns: the single caller makes no further call.
Resume ==
    /\ ~Idle
    /\ ret.kind # "blocked"
    /\ call' = [op |-> "none", args |-> <<>>, job |-> None, deleted |-> FALSE]
    /\ out' = <<>>
    /\ replies' = <<>>
    /\ before' = <<>>
    /\ ret' = [kind |-> "return", val |-> None]
    /\ afterSoon' = (ret.kind = "DeadlineSoon")
    /\ UNCHANGED <<rbuf, eof, srv, parse_yaml, job, puts, jobDeleted, connected,
                   sinceConnect, callers>>

Next ==
    \/ Resume
    \/ Put \/ Reserve \/ Kick \/ KickJob
    \/ Peek \/ PeekReady \/ PeekDelayed \/ PeekBuried
    \/ Tubes \/ Using \/ Use \/ Watching \/ Watch \/ Ignore
    \/ Stats \/ StatsTube \/ PauseTube
    \/ Delete \/ Release \/ Bury \/ Touch \/ StatsJob
    \/ JobDelete \/ JobRelease \/ JobBury \/ JobKick \/ JobTouch \/ JobStats

Spec == Init /\ [][Next]_vars

\* ------------------------------------------- _interact on arbitrary lines
\* _interact called directly, with any declared sets, against a peer that
\* answers with any line: regular or irregular whitespace, a bare LF, no
\* token at all, no line end yet, and bytes of a later response behind it.

InteractStatuses == {S.DELETED, S.NOT_FOUND, S.OUT_OF_MEMORY}

\* The commands handed to _interact, each with the verb it starts with.
InteractCommands ==
    <<[verb |-> V.delete, bytes |-> Line(<<V.delete, FmtInt(1)>>)],
      [verb |-> V.put, bytes |-> PutCommand(<<"x", CR, LF, "y">>, Pri(1), 0, DEFAULT_TTR)]>>

InteractLines ==
    UNION {{Line(<<s>>),
            Line(<<s, <<"7">>>>),
            <<SP>> \o s \o <<SP, SP, "7", "\t", "x", SP>> \o CRLF,
            s \o <<LF>>} : s \in InteractStatuses}
        \cup {CRLF, <<"D", "E">>}

\* What the peer has written behind the line.
InteractExtras == {<<>>, Line(<<S.NOT_FOUND>>), <<"a">>}

Interact ==
    /\ Idle
    /\ \E i \in DOMAIN InteractCommands,
          expected_ok \in SUBSET InteractStatuses,
          expected_err \in SUBSET InteractStatuses,
          line \in InteractLines,
          extra \in {e \in InteractExtras : e = <<>> \/ rbuf = <<>>} :
        ConnCall("_interact", <<InteractCommands[i], expected_ok, expected_err>>,
                 _interact(World(<<Raw(line \o extra)>>),
                           InteractCommands[i].bytes, expected_ok, expected_err))

\* reconnect, with whatever the last call left unread; the daemon accepts the
\* new connection or refuses it.
Reconnect ==
    /\ Idle
    /\ \E accepted \in BOOLEAN :
           ConnCall("reconnect", <<>>, reconnect(World(<<>>), accepted))

NextInteract == Interact \/ Resume

SpecInteract == Init /\ [][NextInteract]_vars

NextReconnect == Interact \/ Resume \/ Reconnect

SpecReconnect == Init /\ [][NextReconnect]_vars

\* ------------------------------------------------------------ observations

RECURSIVE Flatten(_)
Flatten(ss) == IF ss = <<>> THEN <<>> ELSE Head(ss) \o Flatten(Tail(ss))

\* The bytes the last call had before it to read.
Stream == before \o Flatten(replies)

\* The first line of the stream, which is the status line the call read.
StatusLine == Take(Stream, FirstLF(Stream))

HasStatus == FirstLF(Stream) > 0 /\ Split(StatusLine) # <<>>

Status == Split(StatusLine)[1]

Results == Tail(Split(StatusLine))

\* -------------------------------------------------------------- properties

\* C1: for every command, every status line and every pair of declared
\* sets, _interact sends the command once, reads exactly one status line, and
\* returns the argument tokens when the status is in expected_ok; otherwise
\* raises CommandFailed(verb, status, arguments) when it is in expected_err;
\* otherwise raises UnexpectedResponse with the same triple.
C1_InteractClassifies ==
    (call.op = "_interact" /\ HasStatus) =>
        /\ out = <<call.args[1].bytes>>
        /\ rbuf = Drop(Stream, FirstLF(Stream))
        /\ ret = IF Status \in call.args[2]
                     THEN [kind |-> "return", val |-> PyList(Results)]
                 ELSE IF Status \in call.args[3]
                     THEN [kind |-> "CommandFailed",
                           val |-> ExcArgs(call.args[1].verb, Status, Results)]
                 ELSE [kind |-> "UnexpectedResponse",
                       val |-> ExcArgs(call.args[1].verb, Status, Results)]

\* A failure status with arguments was classified while bytes of a later
\* response stayed unread.
C1_Witness ==
    /\ call.op = "_interact"
    /\ HasStatus
    /\ ret.kind = "CommandFailed"
    /\ Status = S.NOT_FOUND
    /\ Len(Results) = 2
    /\ call.args[1].verb = V.put
    /\ rbuf = Line(<<S.NOT_FOUND>>)

\* The call ended as a call can end when the daemon answers as the protocol
\* says: it returned (a result, or the null or success value of a downgrade)
\* or raised CommandFailed or DeadlineSoon.
Completed ==
    call.op # "none" /\ ret.kind \in {"return", "CommandFailed", "DeadlineSoon"}

\* The length of a response as its status line declares it: the line, and for
\* a status that comes with a body the declared length and the 2 trailer bytes.
FramedLen(reply) ==
    LET eol == FirstLF(reply)
        toks == Split(Take(reply, eol))
    IN  IF toks[1] \in {S.RESERVED, S.FOUND} THEN eol + ParseInt(toks[3]).v + 2
        ELSE IF toks[1] = S.OK THEN eol + ParseInt(toks[2]).v + 2
        ELSE eol

RECURSIVE FramedSum(_)
FramedSum(rs) == IF rs = <<>> THEN 0 ELSE FramedLen(Head(rs)) + FramedSum(Tail(rs))

\* C2: stream framing.  After a completed call that found the read position
\* at the start of a status line, the call has consumed of every response
\* exactly the status line and, for a body-bearing response, the declared
\* length plus 2 trailer bytes, and nothing is left unread: the read position
\* is at the start of the next status line.
C2_StreamFraming ==
    (Completed /\ before = <<>>) =>
        /\ rbuf = <<>>
        /\ Len(Stream) - Len(rbuf) = FramedSum(replies)

\* Two responses were consumed by one call, the first with a body.
C2_Witness ==
    /\ Completed
    /\ call.op = "Job.release"
    /\ Len(replies) = 2
    /\ FramedLen(replies[1]) > FirstLF(replies[1])
    /\ rbuf = <<>>

\* C3: round trip.  The Job that reserve returns has the body, byte for byte,
\* that was handed to put for the job of that id.
C3_RoundTrip ==
    (call.op = "reserve" /\ ret.kind = "return" /\ ret.val.t = "job") =>
        /\ \E p \in puts : p.jid = ret.val.v.jid
        /\ \A p \in puts : p.jid = ret.val.v.jid => p.body = ret.val.v.body

\* reserve returned the body that starts like a response of the protocol.
C3_Witness ==
    /\ call.op = "reserve"
    /\ ret.kind = "return"
    /\ ret.val.t = "job"
    /\ ret.val.v.body = StatusLikeBody

\* C4: reserve, with or without a timeout, returns None and raises nothing
\* when the response status is TIMED_OUT, and returns None in that case only.
C4_ReserveTimedOut ==
    call.op = "reserve" =>
        /\ HasStatus
        /\ (Status = S.TIMED_OUT) <=> (ret.kind = "return" /\ ret.val.t = "none")

\* A reserve without timeout got TIMED_OUT while the daemon held a job.
C4_Witness ==
    /\ call.op = "reserve"
    /\ call.args[1].t = "none"
    /\ Status = S.TIMED_OUT
    /\ ret.kind = "return"
    /\ srv # <<>>

\* C5: reserve raises DeadlineSoon carrying the response arguments when the
\* status is DEADLINE_SOON; it has then read the status line and nothing
\* else, and the call made next finds nothing unread: it reads its own
\* response and ends without waiting for bytes.
C5_DeadlineSoon ==
    /\ (call.op = "reserve" /\ HasStatus /\ Status = S.DEADLINE_SOON) =>
           /\ ret.kind = "DeadlineSoon"
           /\ ret.val = PyList(Results)
           /\ rbuf = Drop(Stream, FirstLF(Stream))
           /\ rbuf = <<>>
    /\ (afterSoon /\ call.op # "none") =>
           /\ before = <<>>
           /\ ret.kind # "blocked"

\* The reserve made right after a DeadlineSoon returned a Job.
C5_Witness ==
    /\ afterSoon
    /\ call.op = "reserve"
    /\ ret.kind = "return"
    /\ ret.val.t = "job"
    /\ rbuf = <<>>

PeekOps == {"peek", "peek_ready", "peek_delayed", "peek_buried"}

\* C6: the peek variants never raise CommandFailed; on NOT_FOUND they return
\* None, having read the status line and no byte more.
C6_PeekNotFound ==
    call.op \in PeekOps =>
        /\ ret.kind # "CommandFailed"
        /\ (HasStatus /\ Status = S.NOT_FOUND) =>
               /\ ret.kind = "return"
               /\ ret.val.t = "none"
               /\ rbuf = Drop(Stream, FirstLF(Stream))

\* peek of an id the daemon does not hold returned None.
C6_Witness ==
    /\ call.op = "peek"
    /\ call.args[1].v = MaxJobs + 1
    /\ Status = S.NOT_FOUND
    /\ ret.kind = "return"
    /\ ret.val.t = "none"

\* C7: ignore returns the integer 1 when the status is NOT_IGNORED, which is
\* what it returns for WATCHING 1.
C7_IgnoreNotIgnored ==
    (call.op = "ignore" /\ HasStatus) =>
        /\ Status = S.NOT_IGNORED => (ret.kind = "return" /\ ret.val = PyInt(1))
        /\ (Status = S.WATCHING /\ Results = <<FmtInt(1)>>) =>
               (ret.kind = "return" /\ ret.val = PyInt(1))

C7_Witness ==
    /\ call.op = "ignore"
    /\ HasStatus
    /\ Status = S.NOT_IGNORED
    /\ ret.kind = "return"
    /\ ret.val = PyInt(1)

JobMutators == {"Job.delete", "Job.release", "Job.bury", "Job.touch", "Job.kick"}

\* C8 as stated: after Job.delete has completed, a further mutating call on
\* the same Job completes without raising, whatever status of its verb the
\* daemon answers with; NOT_FOUND is not raised through the Job.
C8_AfterDeleteNeverRaises ==
    (call.deleted /\ call.op \in JobMutators /\ ret.kind # "UnexpectedResponse") =>
        ret.kind = "return"

\* C8 (amended): after Job.delete has completed, release, bury and touch on
\* the same Job send nothing and return; delete and kick send their command,
\* and a NOT_FOUND answer is raised as CommandFailed(verb, NOT_FOUND, ()).
C8_AfterDelete ==
    call.deleted =>
        /\ call.op \in {"Job.release", "Job.bury", "Job.touch"} =>
               /\ out = <<>>
               /\ ret.kind = "return"
               /\ job = call.job
        /\ call.op = "Job.delete" =>
               /\ out = <<Line(<<V.delete, FmtInt(call.job.v.jid)>>)>>
               /\ Status = S.NOT_FOUND =>
                      /\ ret.kind = "CommandFailed"
                      /\ ret.val = ExcArgs(V.delete, S.NOT_FOUND, <<>>)
        /\ call.op = "Job.kick" =>
               /\ out = <<Line(<<V.kick_job, FmtInt(call.job.v.jid)>>)>>
               /\ Status = S.NOT_FOUND =>
                      /\ ret.kind = "CommandFailed"
                      /\ ret.val = ExcArgs(V.kick_job, S.NOT_FOUND, <<>>)

\* The second Job.delete got NOT_FOUND and raised CommandFailed.
C8_Witness ==
    /\ call.deleted
    /\ call.op = "Job.delete"
    /\ Status = S.NOT_FOUND
    /\ ret.kind = "CommandFailed"

NameOps == {"use", "watch", "ignore", "stats_tube", "pause_tube"}

\* C9: put with a body that is not bytes, and use, watch, ignore, stats_tube
\* and pause_tube with a name that is not bytes, raise ValueError with
\* nothing sent and nothing read.
C9_ValidationFirst ==
    (call.op \in NameOps \cup {"put"} /\ call.args[1].t # "bytes") =>
        /\ ret.kind = "ValueError"
        /\ out = <<>>
        /\ replies = <<>>
        /\ rbuf = before

\* A text name was refused on a connection whose daemon holds a job.
C9_Witness ==
    /\ call.op = "pause_tube"
    /\ call.args[1].t = "str"
    /\ ret.kind = "ValueError"
    /\ out = <<>>
    /\ srv # <<>>

\* C10: on a Job that is not reserved, release, bury and touch send nothing,
\* return, and leave the Job and the stream as they were; delete and kick
\* send their command all the same.
C10_NotReserved ==
    (call.op \in JobMutators /\ ~call.job.v.reserved) =>
        /\ call.op \in {"Job.release", "Job.bury", "Job.touch"} =>
               /\ out = <<>>
               /\ replies = <<>>
               /\ ret.kind = "return"
               /\ ret.val.t = "none"
               /\ job = call.job
               /\ rbuf = before
        /\ call.op = "Job.delete" =>
               out = <<Line(<<V.delete, FmtInt(call.job.v.jid)>>)>>
        /\ call.op = "Job.kick" =>
               out = <<Line(<<V.kick_job, FmtInt(call.job.v.jid)>>)>>

\* release without a priority on a peeked Job the daemon still holds.
C10_Witness ==
    /\ call.op = "Job.release"
    /\ ~call.job.v.reserved
    /\ call.args[1].t = "none"
    /\ out = <<>>
    /\ Live(srv, job.v.jid)

JobOps == JobMutators \cup {"Job.stats"}

\* C11: over any sequence of Job operations the reserved flag of a Job only
\* changes from true to false, and only in a delete, release or bury that
\* returned; touch, kick and stats never change it, and no operation (of the
\* Job or of the Connection) sets it back to true.  No operation changes the
\* Job's id or body.
C11_ReservedOnlyFalls ==
    /\ call.op \in JobOps =>
           /\ job.v.jid = call.job.v.jid
           /\ job.v.body = call.job.v.body
           /\ job.v.reserved # call.job.v.reserved =>
                  /\ call.job.v.reserved
                  /\ ~job.v.reserved
                  /\ call.op \in {"Job.delete", "Job.release", "Job.bury"}
                  /\ ret.kind = "return"
    /\ (call.op \notin JobOps \cup {"none"} /\ call.job.t = "job") =>
           \/ job = call.job
           \/ ret.kind = "return" /\ ret.val.t = "job" /\ job = ret.val

\* A bury that returned cleared the flag of a reserved Job.
C11_Witness ==
    /\ call.op = "Job.bury"
    /\ call.job.v.reserved
    /\ ~job.v.reserved
    /\ ret.kind = "return"

\* The command Job.release (with delay 0) or Job.bury sends for priority p.
ReleaseOrBury(op, jid, p) ==
    IF op = "Job.release"
    THEN Line(<<V.release, FmtInt(jid), FmtPri(p), FmtInt(0)>>)
    ELSE Line(<<V.bury, FmtInt(jid), FmtPri(p)>>)

\* C12: on a reserved Job, release and bury given a priority (any integer,
\* 0 included) send exactly one command, which carries that priority; with
\* the priority omitted they send a stats-job lookup first and then the
\* release or bury, which carries the priority the lookup gave.
C12_PriorityFallback ==
    (call.op \in {"Job.release", "Job.bury"} /\ call.job.v.reserved) =>
        /\ call.args[1].t = "int" =>
               out = <<ReleaseOrBury(call.op, call.job.v.jid, call.args[1].v)>>
        /\ call.args[1].t = "none" =>
               /\ Len(out) \in {1, 2}
               /\ out[1] = Line(<<V.stats_job, FmtInt(call.job.v.jid)>>)
               /\ (Len(out) = 2 /\ parse_yaml) =>
                      \E pri \in StatsPris :
                          /\ replies[1] = BodyReply(<<S.OK>>, StatsDoc(pri))
                          /\ out[2] = ReleaseOrBury(call.op, call.job.v.jid, Pri(pri))

\* ------------------------------------------------- a peer that misbehaves
\* Calls against a peer that may answer with any response of the protocol
\* (one the verb does not declare included), with a response whose status
\* line has too few or too many arguments or no token at all, and that may
\* close the stream after any prefix of what it answers.  Once the stream is
\* closed a call finds nothing to read.

\* What the peer means to answer.
JobResponses(st) ==
    {BodyReply(<<st, FmtInt(1)>>, b) : b \in Bodies \cup {StatusLikeBody}}

FaultResponses ==
    JobResponses(S.RESERVED) \cup JobResponses(S.FOUND)
    \cup {BodyReply(<<S.OK>>, StatsDoc(3))}
    \cup {Line(<<st>>) : st \in {S.TIMED_OUT, S.DEADLINE_SOON, S.NOT_FOUND,
                                 S.NOT_IGNORED, S.OUT_OF_MEMORY, S.USING,
                                 S.RESERVED, S.OK, S.WATCHING, S.DELETED}}
    \cup {Line(<<S.WATCHING, FmtInt(1)>>), Line(<<S.USING, DefaultTube>>),
          Line(<<S.OUT_OF_MEMORY, FmtInt(7)>>), Line(<<S.WATCHING, <<"x">>>>),
          Line(<<S.RESERVED, FmtInt(1), FmtInt(0), FmtInt(9)>>),
          Line(<<S.OK, <<"x">>>>) \o CRLF,
          CRLF, <<SP, CR, LF>>}

\* What the peer may do on a call: <<full, k>>, the response it means to give
\* and how much of it it writes.  A peer that has closed writes nothing.
FaultInputs ==
    IF eof THEN {<<<<>>, 0>>}
    ELSE UNION {{<<full, k>> : k \in 0..Len(full)} : full \in FaultResponses}

\* The transport as a call finds it when the peer writes the first f[2] bytes
\* of f[1] and, if that is not all of it, closes the stream.
FaultWorld(f) ==
    [rbuf |-> rbuf, eof |-> eof \/ f[2] < Len(f[1]), connected |-> connected,
     srv |-> srv,
     oracle |-> <<Raw(Take(f[1], f[2]))>>, out |-> <<>>, replies |-> <<>>]

FaultFetch ==
    /\ Idle
    /\ rbuf = <<>>
    /\ \E f \in FaultInputs :
           \/ \E timeout \in Timeouts :
                  FetchCall("reserve", <<timeout, f[1], f[2]>>,
                            reserve(FaultWorld(f), timeout))
           \/ FetchCall("peek", <<PyInt(1), f[1], f[2]>>, peek(FaultWorld(f), 1))
           \/ FetchCall("peek_ready", <<None, f[1], f[2]>>,
                        peek_ready(FaultWorld(f)))
           \/ FetchCall("peek_delayed", <<None, f[1], f[2]>>,
                        peek_delayed(FaultWorld(f)))
           \/ FetchCall("peek_buried", <<None, f[1], f[2]>>,
                        peek_buried(FaultWorld(f)))

FaultCall ==
    /\ Idle
    /\ rbuf = <<>>
    /\ \E f \in FaultInputs :
           \/ ConnCall("ignore", <<PyBytes(TubeName), f[1], f[2]>>,
                       ignore(FaultWorld(f), PyBytes(TubeName)))
           \/ ConnCall("using", <<None, f[1], f[2]>>, using(FaultWorld(f)))
           \/ ConnCall("delete", <<PyInt(1), f[1], f[2]>>,
                       delete(FaultWorld(f), 1))
           \/ ConnCall("stats_job", <<PyInt(1), f[1], f[2]>>,
                       stats_job(FaultWorld(f), parse_yaml, 1))

\* A call on the Job held.  What the peer does is its answer to the first
\* command of the call; a release or bury that follows a stats-job lookup is
\* answered BURIED.
FaultJob ==
    /\ Idle
    /\ rbuf = <<>>
    /\ job.t = "job"
    /\ \E f \in FaultInputs :
           \/ \E r \in {Job_delete(FaultWorld(f), job.v)} :
                  JobCall("Job.delete", <<None, f[1], f[2]>>, r,
                          jobDeleted \/ r.kind = "return")
           \/ \E i \in DOMAIN JobPriorities :
                  JobCall("Job.release", <<JobPriorities[i], f[1], f[2]>>,
                          Job_release([FaultWorld(f) EXCEPT
                                          !.oracle = @ \o <<Raw(Line(<<S.BURIED>>))>>],
                                      parse_yaml, job.v, JobPriorities[i], 0),
                          jobDeleted)
           \/ \E i \in DOMAIN JobPriorities :
                  JobCall("Job.bury", <<JobPriorities[i], f[1], f[2]>>,
                          Job_bury([FaultWorld(f) EXCEPT
                                       !.oracle = @ \o <<Raw(Line(<<S.BURIED>>))>>],
                                   parse_yaml, job.v, JobPriorities[i]),
                          jobDeleted)

NextFault ==
    \/ Resume
    \/ FaultFetch \/ FaultCall \/ FaultJob

SpecFault == Init /\ [][NextFault]_vars

\* The response the peer meant to give to the last call, and how much of it
\* it wrote.
Meant == call.args[2]
Written == call.args[3]

\* The last call got, in full or in part, the body-bearing success response
\* of its verb.
MeantBody ==
    \/ call.op = "reserve" /\ Meant \in JobResponses(S.RESERVED)
    \/ call.op \in PeekOps /\ Meant \in JobResponses(S.FOUND)
    \/ call.op = "stats_job" /\ Meant = BodyReply(<<S.OK>>, StatsDoc(3))

\* C13: if the peer closes the stream before the full response has been
\* read (before the status line, within the declared body bytes, or before
\* the 2 trailer bytes) the call raises SocketError; no Job or document
\* shorter than the declared length is returned.
C13_PeerClosesMidResponse ==
    (/\ call.op # "none"
     /\ MeantBody
     /\ Written < Len(Meant)
     /\ Written = 0 \/ Written >= FirstLF(Meant)) =>
        ret.kind = "SocketError"

\* C14: in _interact_job and _interact_yaml a declared body length of 0
\* together with an absent body read (the peer closed the stream right after
\* the status line, so neither body nor trailer arrived) raises SocketError.
C14_ZeroLengthAbsentBody ==
    (/\ call.op # "none"
     /\ MeantBody
     /\ Len(Meant) = FirstLF(Meant) + 2
     /\ Written = FirstLF(Meant)) =>
        ret.kind = "SocketError"

\* The calls that turn a failure into a value, and the statuses each declares.
DowngradeOps == PeekOps \cup {"reserve", "ignore"}

Declared(op) ==
    IF op = "reserve" THEN {S.RESERVED, S.DEADLINE_SOON, S.TIMED_OUT}
    ELSE IF op = "ignore" THEN {S.WATCHING, S.NOT_IGNORED}
    ELSE {S.FOUND, S.NOT_FOUND}

\* C15: the downgrade sites swallow only CommandFailed.  In the peek
\* variants, reserve and ignore a status in neither declared set reaches the
\* caller as UnexpectedResponse(verb, status, args), and a transport error
\* (the stream closed with no status line to read, or closed right after a
\* status line that declares a non-empty body) reaches the caller as
\* SocketError; neither becomes None or a value, and the Job held is unchanged.
C15_OnlyCommandFailedSwallowed ==
    call.op \in DowngradeOps =>
        /\ (HasStatus /\ Status \notin Declared(call.op)) =>
               /\ ret = [kind |-> "UnexpectedResponse",
                         val |-> ExcArgs(Verb(out[1]), Status, Results)]
               /\ job = call.job
        /\ (eof /\ Stream = <<>>) => (ret.kind = "SocketError" /\ job = call.job)
        /\ (/\ eof
            /\ MeantBody
            /\ Written = FirstLF(Meant)
            /\ Len(Meant) > FirstLF(Meant) + 2) =>
               (ret.kind = "SocketError" /\ job = call.job)

\* A peek was answered OUT_OF_MEMORY 7 and raised UnexpectedResponse.
C15_Witness ==
    /\ call.op = "peek_ready"
    /\ HasStatus
    /\ Status = S.OUT_OF_MEMORY
    /\ Results = <<FmtInt(7)>>
    /\ ret.kind = "UnexpectedResponse"

C17_ReconnectDiscards ==
    /\ call.op = "reconnect" =>
           /\ out = <<Line(<<V.quit>>)>>
           /\ ret.kind \in {"return", "SocketError"}
           /\ connected = (ret.kind = "return")
           /\ ret.kind = "return" => (rbuf = <<>> /\ ~eof)
    /\ (call.op = "_interact" /\ connected /\ sinceConnect = 1) =>
           /\ before = <<>>
           /\ HasStatus => StatusLine = Take(replies[1], FirstLF(replies[1]))

\* A reconnect discarded bytes the call before it had left unread.
C17_Witness ==
    /\ call.op = "reconnect"
    /\ ret.kind = "return"
    /\ before # <<>>
    /\ rbuf = <<>>

\* ------------------------------------------- two callers, one Connection
\* The Connection holds no lock.  A call is sendall, then readline and, for a
\* call that reads a Job, read(size) and read(2); between any two of these
\* another caller may run.  Each caller makes one call.

\* The calls a caller makes, as _interact_job and _interact are given them by
\* reserve and delete, and what the daemon may answer.
RaceCommands ==
    <<[bytes |-> Line(<<V.reserve>>), ok |-> {S.RESERVED},
       err |-> {S.DEADLINE_SOON, S.TIMED_OUT}, job |-> TRUE,
       answers |-> JobResponses(S.RESERVED) \cup {Line(<<S.TIMED_OUT>>)}],
      [bytes |-> Line(<<V.delete, FmtInt(1)>>), ok |-> {S.DELETED},
       err |-> {S.NOT_FOUND}, job |-> FALSE,
       answers |-> {Line(<<S.DELETED>>), Line(<<S.NOT_FOUND>>)}]>>

\* _interact, line 95: the command is sent and the daemon answers it behind
\* whatever it has written before.  A caller that sends while another is
\* between its send and the end of its reads races with it.
RaceSend ==
    \E c \in DOMAIN callers :
        /\ callers[c].at = "idle"
        /\ \E i \in DOMAIN RaceCommands : \E answer \in RaceCommands[i].answers :
            \E w \in {sendall([World(<<Raw(answer)>>) EXCEPT !.out = out,
                                                            !.replies = replies],
                              RaceCommands[i].bytes)} :
                /\ rbuf' = w.rbuf
                /\ out' = w.out
                /\ replies' = w.replies
                /\ callers' =
                       [o \in DOMAIN callers |->
                           IF o = c
                           THEN [callers[c] EXCEPT
                                    !.at = "line", !.cmd = i, !.own = Len(w.replies),
                                    !.raced = \E p \in DOMAIN callers :
                                                  callers[p].at \in {"line", "body", "trailer"}]
                           ELSE [callers[o] EXCEPT
                                    !.raced = @ \/ callers[o].at \in {"line", "body", "trailer"}]]
        /\ UNCHANGED <<eof, srv, parse_yaml, job, call, before, ret, puts, jobDeleted,
                       afterSoon, connected, sinceConnect>>

\* The next read of a call: the status line and its dispatch (_interact, lines
\* 96-102, and the unpacking of _interact_job, lines 122-123), the body
\* (line 112), the trailer and the Job (lines 113-116, 124).  A read that
\* finds too few bytes waits.
RaceRead ==
    \E c \in DOMAIN callers :
        LET me == callers[c]
            cmd == RaceCommands[me.cmd]
            End(r, taken, kind) ==
                [me EXCEPT !.at = "done", !.kind = kind, !.got = @ \o taken]
            AfterLine(r, taken) ==
                IF r.kind # "return" THEN End(r, taken, r.kind)
                ELSE IF ~cmd.job THEN End(r, taken, "return")
                ELSE IF Len(r.val.v) # 2 THEN End(r, taken, "ValueError")
                ELSE IF ~ParseInt(r.val.v[2]).ok THEN End(r, taken, "ValueError")
                ELSE [me EXCEPT !.at = "body", !.results = r.val.v, !.got = @ \o taken]
            AfterBody(r, taken) ==
                IF r.kind # "return" THEN End(r, taken, r.kind)
                ELSE [me EXCEPT !.at = "trailer", !.body = r.val, !.got = @ \o taken]
            AfterTrailer(r, taken) == End(r, taken, r.kind)
        IN  /\ me.at \in {"line", "body", "trailer"}
            /\ \E r \in {IF me.at = "line"
                              THEN Dispatch(_read_response(World(<<>>)), cmd.bytes,
                                            cmd.ok, cmd.err)
                          ELSE IF me.at = "body"
                              THEN read(World(<<>>), ParseInt(me.results[2]).v)
                          ELSE MakeJob(me.results[1],
                                       CheckBody(ParseInt(me.results[2]).v,
                                                 Ret(World(<<>>), me.body),
                                                 read(World(<<>>), 2)),
                                       TRUE)} :
                /\ r.kind # "blocked"
                /\ rbuf' = r.w.rbuf
                /\ \E taken \in {Take(rbuf, Len(rbuf) - Len(r.w.rbuf))} :
                       callers' = [callers EXCEPT ![c] =
                                      IF me.at = "line" THEN AfterLine(r, taken)
                                      ELSE IF me.at = "body" THEN AfterBody(r, taken)
                                      ELSE AfterTrailer(r, taken)]
            /\ UNCHANGED <<eof, srv, parse_yaml, job, call, out, replies, before, ret,
                           puts, jobDeleted, afterSoon, connected, sinceConnect>>

NextRace == RaceSend \/ RaceRead

SpecRace == Init /\ [][NextRace]_vars

\* The callers between their send and the end of their reads.
InFlight == {c \in DOMAIN callers : callers[c].at \in {"line", "body", "trailer"}}

\* C18: the Connection does no locking.  While calls are serialized (no
\* caller has sent while another was in flight) at most one command is in
\* flight and a call that has ended has read exactly the response to its own
\* command.  Without serialization an interleaving is reachable (C18_Witness)
\* in which a command is sent before the response before it is drained and a
\* caller reads bytes of the other caller's response.
C18_SerializedReadsOwn ==
    /\ (\A c \in DOMAIN callers : ~callers[c].raced) => Cardinality(InFlight) <= 1
    /\ \A c \in DOMAIN callers :
           (callers[c].at = "done" /\ ~callers[c].raced) =>
               /\ callers[c].got = replies[callers[c].own]
               /\ callers[c].kind \in {"return", "CommandFailed"}

\* b sent its delete while a's reserve was unanswered, read the status line
\* of a's response as its own and raised UnexpectedResponse.
C18_Witness ==
    /\ callers["b"].at = "done"
    /\ callers["b"].raced
    /\ callers["a"].own = 1
    /\ callers["b"].own = 2
    /\ callers["b"].got = Take(replies[1], FirstLF(replies[1]))
    /\ callers["b"].got # replies[2]
    /\ callers["b"].kind = "UnexpectedResponse"

\* The calls that hand the outcome of _interact, _interact_value,
\* _interact_job and _interact_yaml to the caller.
HelperOps == PeekOps \cup {"delete", "using", "stats_job"}

\* C19: outcome classification is total.  For every non-empty line the
\* transport delivers as a status line (a line of CRLF or whitespace only, and
\* a success status with fewer or more arguments than the helper expects,
\* included) _interact, _interact_value, _interact_job and _interact_yaml end
\* in a returned result, CommandFailed, UnexpectedResponse or SocketError,
\* and in nothing else.
C19_ClassificationTotal ==
    (/\ call.op \in HelperOps
     /\ Meant # <<>>
     /\ Written = Len(Meant)) =>
        ret.kind \in {"return", "CommandFailed", "UnexpectedResponse", "SocketError"}

\* C20: failure leaves the Job unchanged.  If Job.delete, Job.release or
\* Job.bury does not return (the delegated command, or the stats-job lookup
\* before a release or bury without priority, ended in CommandFailed,
\* UnexpectedResponse, SocketError or anything else raised), the Job is as it
\* was, reserved included; and when the lookup failed (nothing arrived, or a
\* status other than OK) the lookup is the only command sent.
C20_FailureLeavesJob ==
    call.op \in {"Job.delete", "Job.release", "Job.bury"} =>
        /\ ret.kind # "return" => job = call.job
        /\ (/\ call.op # "Job.delete"
            /\ call.job.v.reserved
            /\ ~(call.args[1].t = "int" /\ Truthy(call.args[1].v))
            /\ (eof /\ Written = 0) \/ (HasStatus /\ Status # S.OK)) =>
               /\ out = <<Line(<<V.stats_job, FmtInt(call.job.v.jid)>>)>>
               /\ ret.kind \in {"CommandFailed", "UnexpectedResponse", "SocketError"}
               /\ job = call.job

\* The peer closed the stream on the stats-job lookup of a release without
\* priority: SocketError, one command sent, the Job still reserved.
C20_Witness ==
    /\ call.op = "Job.release"
    /\ call.args[1].t = "none"
    /\ call.job.v.reserved
    /\ ret.kind = "SocketError"
    /\ Len(out) = 1
    /\ job.v.reserved

====
